---- MODULE Spec2Model ----
(***************************************************************************)
(* A model of the three-workstation / two-inspector assembly line of       *)
(* src/main.py (run_iteration), its entities (models/buffer.py,            *)
(* models/inspector.py, models/workstation.py) and the per-run reduction   *)
(* of runanalysis.py.                                                      *)
(*                                                                         *)
(* The entities run as SimPy processes.  The model keeps SimPy's event     *)
(* queue explicitly: an event is processed when it is popped from the      *)
(* queue, in (time, priority, insertion) order, and its callbacks run in   *)
(* that one step.  Simulated durations are drawn from small sets of        *)
(* positive integers instead of the exponential distribution.              *)
(***************************************************************************)
EXTENDS Integers, Sequences, FiniteSets, TLC

\* ------------------------------------------------------------------ bounds

\* Horizon (SIM_TIME) and warm-up cutoff (START_RECORDING) of the ordinary run.
Horizon == 5
Warmup == 3
\* Horizon of the run in which inspector 1 outpaces the workstations.
RaceHorizon == 15
\* The horizon of the run in which inspector 2 has no buffer for C3.
DropHorizon == 7
\* Length of the stream of random numbers that stands for a seed.
StreamLen == 3

\* --------------------------------------------------------------- constants

BUFFER_SIZE == 2

Components == {"C1", "C2", "C3"}
Workstations == {"ws1", "ws2", "ws3"}
Inspectors == {"insp1", "insp2"}
Buffers == {"w1c1", "w2c1", "w2c2", "w3c1", "w3c3"}

\* Buffer.accepts, as run_iteration constructs the five buffers.
accepts == [w1c1 |-> "C1", w2c1 |-> "C1", w2c2 |-> "C2", w3c1 |-> "C1", w3c3 |-> "C3"]

\* Buffer.will_accept
WillAcceptAny(b, component) == TRUE
will_accept(b, component) == component = accepts[b]

\* The lists run_iteration hands to the constructors.
LineWsBuffers == [ws1 |-> <<"w1c1">>, ws2 |-> <<"w2c1", "w2c2">>, ws3 |-> <<"w3c1", "w3c3">>]
InspComponents == [insp1 |-> <<"C1">>, insp2 |-> <<"C2", "C3">>]
LineInspBuffers == [insp1 |-> <<"w1c1", "w2c1", "w3c1">>, insp2 |-> <<"w2c2", "w3c3">>]

\* workstation_list and inspector_list, in scheduling order.
workstation_list == <<"ws1", "ws2", "ws3">>
inspector_list == <<"insp1", "insp2">>

MeanKey == [ws1 |-> "ws1", ws2 |-> "ws2", ws3 |-> "ws3"]

SeqToSet(s) == {s[i] : i \in 1..Len(s)}

RECURSIVE SumSeq(_)
SumSeq(s) == IF s = <<>> THEN 0 ELSE Head(s) + SumSeq(Tail(s))

\* ---------------------------------------------------------- configurations

\* A seed is modelled by the stream of random numbers it produces, here a
\* cycle of StreamLen bits.  AnySeed stands for every seed at once: each draw
\* of the replication may take any of its values.
Seeds == [1..StreamLen -> {0, 1}]
AnySeed == <<>>

\* seed_list of __main__: the seeds of three replications, the first and the
\* third with the same seed.
SeedLists == {<<a, b, a>> : a, b \in Seeds}

\* The inputs of a run: SIM_TIME, START_RECORDING, the means, the seed of
\* each replication, and the buffer lists handed to the constructors.
LineMeans == [C1 |-> 2, C2 |-> 2, C3 |-> 2, ws1 |-> 3, ws2 |-> 2, ws3 |-> 2]
DropMeans == [ws1 |-> 2, ws2 |-> 2, ws3 |-> 1, C1 |-> 1, C2 |-> 1, C3 |-> 1]
RaceMeans == [C1 |-> 1, C2 |-> 11, C3 |-> 11, ws1 |-> 12, ws2 |-> 1, ws3 |-> 1]

LineConfig ==
  [name |-> "line", SIM_TIME |-> Horizon, START_RECORDING |-> Warmup,
   means |-> LineMeans, seed_list |-> <<AnySeed>>,
   ws_buffers |-> LineWsBuffers, insp_buffers |-> LineInspBuffers]

Configs ==
  { LineConfig,
    [LineConfig EXCEPT !.name = "nowindow", !.SIM_TIME = Warmup],
    [LineConfig EXCEPT !.name = "race", !.SIM_TIME = RaceHorizon,
                       !.START_RECORDING = RaceHorizon + 1, !.means = RaceMeans],
    [LineConfig EXCEPT !.name = "nobuffers", !.ws_buffers["ws1"] = <<>>],
    [LineConfig EXCEPT !.name = "nomatch", !.SIM_TIME = DropHorizon,
                       !.START_RECORDING = 0, !.means = DropMeans,
                       !.insp_buffers["insp2"] = <<"w2c2">>] }
  \cup { [LineConfig EXCEPT !.name = "seeded", !.seed_list = l] : l \in SeedLists }

\* random.expovariate(1 / mean): a positive duration.  The model draws a short
\* sample or one as long as the mean.
expovariate(mean) == {1, mean}

\* random.choice(seq): one of the elements.
choice(seq) == SeqToSet(seq)

\* ------------------------------------------------------------------- state

VARIABLES
  cfg,          \* the configuration of this replication
  phase,        \* "new", "built", "started", "running", "crashed", "stopped",
                \* "record_failed", "workstations_reported", "reduce_failed",
                \* "reported"
  now,          \* main_env.now
  queue,        \* the environment's event queue, in processing order
  level,        \* Buffer.level of each buffer
  put_queue,    \* Container.put_queue of each buffer: the pending put requests
  get_queue,    \* Container.get_queue of each buffer: the pending get requests
  ws,           \* the fields of each Workstation and the position of its process
  insp,         \* the fields of each Inspector and the position of its process
  deposited,    \* history: units put into each buffer
  removed,      \* history: units taken out of each buffer
  started,      \* history: assemblies each workstation has started
  inspected,    \* history: inspections each inspector has finished
  routed,       \* history: routing steps each inspector has finished
  cycles,       \* history: cycles completed, before and from the cutoff, and the last instant
  stats         \* the summary rows of this replication, once the Statistics
                \* Engine has run, and what the earlier replications left

vars == <<cfg, phase, now, queue, level, put_queue, get_queue, ws, insp,
          deposited, removed, started, inspected, routed, cycles, stats>>

hist == <<deposited, removed, started, inspected, routed, cycles>>

SIM_TIME == cfg.SIM_TIME
START_RECORDING == cfg.START_RECORDING
InspBuffers == cfg.insp_buffers

\* ----------------------------------------------------------- random numbers

\* The index of the replication being run and the seed run_iteration gives to
\* random.seed.
iteration == Len(stats.earlier) + 1
seed == cfg.seed_list[iteration]

\* The numbers drawn since random.seed: one per assembly started, two per
\* inspection started (the component, then the inspection time).
RECURSIVE DrawCount(_)
DrawCount(es) ==
  IF es = <<>> THEN 0
  ELSE DrawCount(Tail(es))
       + (IF Head(es) \in Workstations THEN started[Head(es)]
          ELSE 2 * (inspected[Head(es)] + IF insp[Head(es)].pc = "inspecting" THEN 1 ELSE 0))

\* The k-th random number after the numbers already drawn.
Bit(k) == seed[((DrawCount(workstation_list \o inspector_list) + k) % StreamLen) + 1]

Lowest(S) == CHOOSE x \in S : \A y \in S : x <= y
Highest(S) == CHOOSE x \in S : \A y \in S : y <= x

\* The values the next draws can take under the seed of the replication: the
\* k-th random number decides which element, or which duration, is drawn.
DrawnElement(seq, k) ==
  IF seed = AnySeed THEN choice(seq) ELSE {seq[(Bit(k) % Len(seq)) + 1]}
DrawnDuration(S, k) ==
  IF seed = AnySeed THEN S ELSE {IF Bit(k) = 0 THEN Lowest(S) ELSE Highest(S)}

\* ------------------------------------------------------------- event queue

\* An event of the queue.  prio 0 is SimPy's URGENT, prio 1 its NORMAL.
Event(t, prio, kind, who, buf, cyc) ==
  [t |-> t, prio |-> prio, kind |-> kind, who |-> who, buf |-> buf, cyc |-> cyc]

BeforeNewestFirst(a, b) == a.t < b.t \/ (a.t = b.t /\ a.prio < b.prio)
Before(a, b) == a.t < b.t \/ (a.t = b.t /\ a.prio <= b.prio)

\* Environment.schedule: events are ordered by time, then priority, then the
\* order in which they were scheduled.
Schedule(q, e) ==
  LET k == Cardinality({i \in 1..Len(q) : Before(q[i], e)})
  IN  SubSeq(q, 1, k) \o <<e>> \o SubSeq(q, k + 1, Len(q))

\* Initialize of a new process: urgent, at the current instant.
InitEvent(t, kind, who) == Event(t, 0, kind, who, "-", 0)
\* Timeout(delay), the end of a sub-process, a triggered condition: normal.
NormalEvent(t, kind, who) == Event(t, 1, kind, who, "-", 0)

\* --------------------------------------------------------------- container

\* The part of the state a put or a get touches.
Store == [level |-> level, put_queue |-> put_queue, get_queue |-> get_queue,
          queue |-> queue, deposited |-> deposited, removed |-> removed]

\* Container._do_put's test.
DoPutNoCheck(lvl) == TRUE
DoPut(lvl) == BUFFER_SIZE - lvl >= 1

\* A test no level of a buffer passes.
DoGetNever(lvl) == lvl > BUFFER_SIZE

\* Container._do_get's test.
DoGet(lvl) == lvl >= 1

\* BaseResource._trigger_put: serve the pending puts in order, stopping at the
\* first that does not fit.  A served put raises the level at once and its
\* event is scheduled at the current instant.
RECURSIVE TriggerPut(_, _, _)
TriggerPut(st, b, t) ==
  IF st.put_queue[b] = <<>> \/ ~DoPut(st.level[b]) THEN st
  ELSE LET p == Head(st.put_queue[b])
       IN  TriggerPut([st EXCEPT !.level[b] = @ + 1,
                                 !.put_queue[b] = Tail(@),
                                 !.deposited[b] = @ + 1,
                                 !.queue = Schedule(@, Event(t, 1, "put", p.who, b, p.cyc))],
                      b, t)

\* BaseResource._trigger_get, symmetrically.
RECURSIVE TriggerGet(_, _, _)
TriggerGet(st, b, t) ==
  IF st.get_queue[b] = <<>> \/ ~DoGet(st.level[b]) THEN st
  ELSE LET g == Head(st.get_queue[b])
       IN  TriggerGet([st EXCEPT !.level[b] = @ - 1,
                                 !.get_queue[b] = Tail(@),
                                 !.removed[b] = @ + 1,
                                 !.queue = Schedule(@, Event(t, 1, "get", g.who, b, g.cyc))],
                      b, t)

\* buffer.put(amount=1): the request joins the put queue, which is then served.
PutFirst(st, b, who, cyc, t) ==
  TriggerPut([st EXCEPT !.put_queue[b] = <<[who |-> who, cyc |-> cyc]>> \o @], b, t)
Put(st, b, who, cyc, t) ==
  TriggerPut([st EXCEPT !.put_queue[b] = Append(@, [who |-> who, cyc |-> cyc])], b, t)

\* buffer.get(amount=1)
Get(st, b, who, cyc, t) ==
  TriggerGet([st EXCEPT !.get_queue[b] = Append(@, [who |-> who, cyc |-> cyc])], b, t)

\* [buffer.put(amount=1) for buffer in buffers], in list order.
RECURSIVE PutAll(_, _, _, _, _)
PutAll(st, bs, who, cyc, t) ==
  IF bs = <<>> THEN st ELSE PutAll(Put(st, Head(bs), who, cyc, t), Tail(bs), who, cyc, t)

\* A get(1) on the first buffer of the list only.
GetFirstOnly(st, bs, who, cyc, t) ==
  IF bs = <<>> THEN st ELSE Get(st, Head(bs), who, cyc, t)

\* [buffer.get(amount=1) for buffer in buffers], in list order.
RECURSIVE GetAll(_, _, _, _, _)
GetAll(st, bs, who, cyc, t) ==
  IF bs = <<>> THEN st ELSE GetAll(Get(st, Head(bs), who, cyc, t), Tail(bs), who, cyc, t)

\* Write a Store back, with the event queue given separately.
SetStore(st, q) ==
  /\ level' = st.level
  /\ put_queue' = st.put_queue
  /\ get_queue' = st.get_queue
  /\ deposited' = st.deposited
  /\ removed' = st.removed
  /\ queue' = q

\* -------------------------------------------------------------------- init

\* Workstation.__init__
NewWorkstation ==
  [pc |-> "new", cyc |-> 0, count |-> 0, wait |-> 0, start |-> 0, end |-> 0,
   total_amount_assembled |-> 0, wait_time |-> <<>>, processing_time |-> <<>>]

\* Inspector.__init__ (current_inspection_time is None until the first inspection)
NewInspector(i) ==
  [pc |-> "new", cyc |-> 0, current_component |-> "None", current_inspection_time |-> 0,
   start |-> 0, end |-> 0, wait_time |-> <<>>,
   inspection_times |-> [c \in SeqToSet(InspComponents[i]) |-> <<>>],
   total_amount_inspected |-> [c \in SeqToSet(InspComponents[i]) |-> 0]]

\* Buffer(..., init=0) for the five buffers.
NewBuffers == [b \in Buffers |-> 0]

NoStats == [workstation |-> <<>>, inspector |-> <<>>, earlier |-> <<>>]

Init ==
  /\ cfg \in Configs
  /\ phase = "new"
  /\ now = 0
  /\ queue = <<>>
  /\ level = NewBuffers
  /\ put_queue = [b \in Buffers |-> <<>>]
  /\ get_queue = [b \in Buffers |-> <<>>]
  /\ ws = [w \in Workstations |-> NewWorkstation]
  /\ insp = [i \in Inspectors |-> NewInspector(i)]
  /\ deposited = [b \in Buffers |-> 0]
  /\ removed = [b \in Buffers |-> 0]
  /\ started = [w \in Workstations |-> 0]
  /\ inspected = [i \in Inspectors |-> 0]
  /\ routed = [i \in Inspectors |-> 0]
  /\ cycles = [e \in Workstations \cup Inspectors |-> [pre |-> 0, post |-> 0, last |-> 0]]
  /\ stats = NoStats

\* --------------------------------------------------------------- the runner

\* run_iteration up to the construction of the entities: the environment, the
\* five buffers, the workstations and the inspectors.  No constructor checks
\* its arguments.
Construct ==
  /\ phase = "new"
  /\ phase' = "built"
  /\ UNCHANGED <<cfg, now, queue, level, put_queue, get_queue, ws, insp, hist, stats>>

RECURSIVE InitAll(_, _)
InitAll(q, es) ==
  IF es = <<>> THEN q ELSE InitAll(Schedule(q, InitEvent(0, "init_main", Head(es))), Tail(es))

\* main_env.process(...) for every workstation, then for every inspector.
StartProcesses ==
  /\ phase = "built"
  /\ phase' = "started"
  /\ queue' = InitAll(queue, workstation_list \o inspector_list)
  /\ UNCHANGED <<cfg, now, level, put_queue, get_queue, ws, insp, hist, stats>>

\* The event that ends Environment.run(until=SIM_TIME): urgent, at SIM_TIME.
StopEventLate(t) == Event(t + 1, 0, "until", "-", "-", 0)
StopEvent(t) == Event(t, 0, "until", "-", "-", 0)

\* main_env.run(until=SIM_TIME) is entered.
RunUntil ==
  /\ phase = "started"
  /\ phase' = "running"
  /\ queue' = Schedule(queue, StopEvent(SIM_TIME))
  /\ UNCHANGED <<cfg, now, level, put_queue, get_queue, ws, insp, hist, stats>>

Running == phase = "running" /\ queue # <<>>

\* The until event is processed: the run stops, whatever the entities are doing.
Until ==
  /\ Running
  /\ Head(queue).kind = "until"
  /\ now' = Head(queue).t
  /\ queue' = Tail(queue)
  /\ phase' = "stopped"
  /\ UNCHANGED <<cfg, level, put_queue, get_queue, ws, insp, hist, stats>>

\* The event being processed and the queue left once it is popped.
ev == Head(queue)
rest == Tail(queue)
Popped == [Store EXCEPT !.queue = rest]

\* The cycle of entity e that ends at instant t, counted before or from the cutoff.
CycleDone(e, t) ==
  cycles' = [cycles EXCEPT ![e] = [pre |-> IF t >= START_RECORDING THEN @.pre ELSE @.pre + 1,
                                   post |-> IF t >= START_RECORDING THEN @.post + 1 ELSE @.post,
                                   last |-> t]]

\* The test of both main loops: env.now >= start_recording.
RecordAfter(t, cutoff) == t > cutoff
RecordNow(t, cutoff) == t >= cutoff

\* ------------------------------------------------------------- workstation

\* main_loop is started: it spawns get_components.  The same step is taken
\* each time main_loop comes back to the top of its loop.
WsInitMain(w) ==
  /\ Running
  /\ ev.kind = "init_main" /\ ev.who = w
  /\ now' = ev.t
  /\ queue' = Schedule(rest, InitEvent(ev.t, "init_sub", w))
  /\ ws' = [ws EXCEPT ![w].pc = "start_get"]
  /\ UNCHANGED <<cfg, phase, level, put_queue, get_queue, insp, hist, stats>>

\* all_of's test: every event has been processed.
AnyEvent(n, count) == count > 0
AllEvents(n, count) == count = n

\* The test of get_components: not self.buffers.
NoBuffersUnchecked(bs) == FALSE
NoBuffers(bs) == bs = <<>>

\* Workstation.get_components up to its yield: a workstation with no buffers
\* raises; otherwise a get(1) is issued against every required buffer.
WsGetComponents(w) ==
  /\ Running
  /\ ev.kind = "init_sub" /\ ev.who = w /\ ws[w].pc = "start_get"
  /\ now' = ev.t
  /\ IF NoBuffers(cfg.ws_buffers[w])
     THEN /\ queue' = Schedule(rest, NormalEvent(ev.t, "proc_fail", w))
          /\ ws' = [ws EXCEPT ![w].pc = "raised"]
          /\ UNCHANGED <<level, put_queue, get_queue, deposited, removed>>
     ELSE LET c == ws[w].cyc + 1
              st == GetAll(Popped, cfg.ws_buffers[w], w, c, ev.t)
          IN  /\ SetStore(st, st.queue)
              /\ ws' = [ws EXCEPT ![w].pc = "gathering", ![w].cyc = c,
                                  ![w].count = 0, ![w].wait = ev.t]
  /\ UNCHANGED <<cfg, phase, insp, started, inspected, routed, cycles, stats>>

\* A get event is processed: the buffer serves its pending puts, then the
\* workstation's all_of counts the event and triggers when all are in.
WsGetEvent(w) ==
  /\ Running
  /\ ev.kind = "get" /\ ev.who = w
  /\ now' = ev.t
  /\ LET st == TriggerPut(Popped, ev.buf, ev.t)
         mine == ws[w].pc = "gathering" /\ ev.cyc = ws[w].cyc
         n == ws[w].count + 1
         all == mine /\ AllEvents(Len(cfg.ws_buffers[w]), n)
     IN  /\ SetStore(st, IF all THEN Schedule(st.queue, NormalEvent(ev.t, "cond", w))
                         ELSE st.queue)
         /\ ws' = IF ~mine THEN ws
                  ELSE [ws EXCEPT ![w].count = n,
                                  ![w].pc = IF all THEN "all_done" ELSE "gathering"]
  /\ UNCHANGED <<cfg, phase, insp, started, inspected, routed, cycles, stats>>

\* The all_of condition is processed: get_components returns.
WsGathered(w) ==
  /\ Running
  /\ ev.kind = "cond" /\ ev.who = w
  /\ now' = ev.t
  /\ queue' = Schedule(rest, NormalEvent(ev.t, "proc", w))
  /\ ws' = [ws EXCEPT ![w].pc = "gathered"]
  /\ UNCHANGED <<cfg, phase, level, put_queue, get_queue, insp, hist, stats>>

\* main_loop resumes after get_components and spawns assemble.
WsStartAssemble(w) ==
  /\ Running
  /\ ev.kind = "proc" /\ ev.who = w /\ ws[w].pc = "gathered"
  /\ now' = ev.t
  /\ queue' = Schedule(rest, InitEvent(ev.t, "init_sub", w))
  /\ ws' = [ws EXCEPT ![w].pc = "start_asm"]
  /\ UNCHANGED <<cfg, phase, level, put_queue, get_queue, insp, hist, stats>>

\* Workstation.assemble up to its yield.
WsAssemble(w) ==
  /\ Running
  /\ ev.kind = "init_sub" /\ ev.who = w /\ ws[w].pc = "start_asm"
  /\ now' = ev.t
  /\ \E d \in DrawnDuration(expovariate(cfg.means[MeanKey[w]]), 0) :
       queue' = Schedule(rest, NormalEvent(ev.t + d, "timeout", w))
  /\ ws' = [ws EXCEPT ![w].pc = "assembling", ![w].start = ev.t]
  /\ started' = [started EXCEPT ![w] = @ + 1]
  /\ UNCHANGED <<cfg, phase, level, put_queue, get_queue, insp, deposited, removed,
                 inspected, routed, cycles, stats>>

\* The assembly timeout is processed: assemble records the end and returns.
WsAssembled(w) ==
  /\ Running
  /\ ev.kind = "timeout" /\ ev.who = w
  /\ now' = ev.t
  /\ queue' = Schedule(rest, NormalEvent(ev.t, "proc", w))
  /\ ws' = [ws EXCEPT ![w].pc = "assembled", ![w].end = ev.t]
  /\ CycleDone(w, ev.t)
  /\ UNCHANGED <<cfg, phase, level, put_queue, get_queue, insp, deposited, removed,
                 started, inspected, routed, stats>>

\* Workstation.record_stats
WsRecordStatsToEnd(r) ==
  [r EXCEPT !.total_amount_assembled = @ + 1,
            !.wait_time = Append(@, (0 - r.wait) + r.end),
            !.processing_time = Append(@, r.end - r.start)]
WsRecordStats(r) ==
  [r EXCEPT !.total_amount_assembled = @ + 1,
            !.wait_time = Append(@, (0 - r.wait) + r.start),
            !.processing_time = Append(@, r.end - r.start)]

\* main_loop resumes after assemble: it records the cycle when the cutoff has
\* passed, and goes back to gathering.
WsLoop(w) ==
  /\ Running
  /\ ev.kind = "proc" /\ ev.who = w /\ ws[w].pc = "assembled"
  /\ now' = ev.t
  /\ queue' = Schedule(rest, InitEvent(ev.t, "init_sub", w))
  /\ ws' = [ws EXCEPT ![w] = [(IF RecordNow(ev.t, START_RECORDING)
                               THEN WsRecordStats(@) ELSE @)
                              EXCEPT !.pc = "start_get"]]
  /\ UNCHANGED <<cfg, phase, level, put_queue, get_queue, insp, hist, stats>>

\* The failed get_components is processed: the exception is thrown into
\* main_loop, which does not catch it and fails in turn.
WsProcFail(w) ==
  /\ Running
  /\ ev.kind = "proc_fail" /\ ev.who = w
  /\ now' = ev.t
  /\ queue' = Schedule(rest, NormalEvent(ev.t, "main_fail", w))
  /\ ws' = [ws EXCEPT ![w].pc = "dead"]
  /\ UNCHANGED <<cfg, phase, level, put_queue, get_queue, insp, hist, stats>>

\* The failed main_loop is processed: nobody handles the exception, so
\* Environment.step raises it out of run_iteration.
MainFail ==
  /\ Running
  /\ ev.kind = "main_fail"
  /\ now' = ev.t
  /\ queue' = rest
  /\ phase' = "crashed"
  /\ UNCHANGED <<cfg, level, put_queue, get_queue, ws, insp, hist, stats>>

\* --------------------------------------------------------------- inspector

\* main_loop is started: it spawns inspect_component.
InspInitMain(i) ==
  /\ Running
  /\ ev.kind = "init_main" /\ ev.who = i
  /\ now' = ev.t
  /\ queue' = Schedule(rest, InitEvent(ev.t, "init_sub", i))
  /\ insp' = [insp EXCEPT ![i].pc = "start_inspect"]
  /\ UNCHANGED <<cfg, phase, level, put_queue, get_queue, ws, hist, stats>>

\* Inspector.inspect_component up to its yield: a random component of the
\* inspector's list and a random inspection time.
InspInspect(i) ==
  /\ Running
  /\ ev.kind = "init_sub" /\ ev.who = i /\ insp[i].pc = "start_inspect"
  /\ now' = ev.t
  /\ \E c \in DrawnElement(InspComponents[i], 0) :
     \E d \in DrawnDuration(expovariate(cfg.means[c]), 1) :
       /\ queue' = Schedule(rest, NormalEvent(ev.t + d, "timeout", i))
       /\ insp' = [insp EXCEPT ![i].pc = "inspecting", ![i].current_component = c,
                               ![i].current_inspection_time = d]
  /\ UNCHANGED <<cfg, phase, level, put_queue, get_queue, ws, hist, stats>>

\* The inspection timeout is processed: inspect_component returns the component.
InspInspected(i) ==
  /\ Running
  /\ ev.kind = "timeout" /\ ev.who = i
  /\ now' = ev.t
  /\ queue' = Schedule(rest, NormalEvent(ev.t, "proc", i))
  /\ insp' = [insp EXCEPT ![i].pc = "inspected"]
  /\ inspected' = [inspected EXCEPT ![i] = @ + 1]
  /\ UNCHANGED <<cfg, phase, level, put_queue, get_queue, ws, deposited, removed,
                 started, routed, cycles, stats>>

\* main_loop resumes with the component and spawns the routing process:
\* add_component_to_buffer_original_routing for C1, else
\* add_component_to_buffer_insp_2.
InspStartRoute(i) ==
  /\ Running
  /\ ev.kind = "proc" /\ ev.who = i /\ insp[i].pc = "inspected"
  /\ now' = ev.t
  /\ queue' = Schedule(rest, InitEvent(ev.t, "init_sub", i))
  /\ insp' = [insp EXCEPT ![i].pc = "start_route"]
  /\ UNCHANGED <<cfg, phase, level, put_queue, get_queue, ws, hist, stats>>

\* The loop of add_component_to_buffer_original_routing: the first buffer of
\* the list with the lowest level.
RECURSIVE MostEmpty(_, _, _)
MostEmpty(best, bs, lvl) ==
  IF bs = <<>> THEN best
  ELSE MostEmpty(IF lvl[Head(bs)] < lvl[best] THEN Head(bs) ELSE best, Tail(bs), lvl)

most_empty_buffer(i) == MostEmpty(InspBuffers[i][1], InspBuffers[i], level)

\* The routing step of entity i ends at instant t: the routing process returns.
RouteDone(i, t, q) ==
  /\ queue' = Schedule(q, NormalEvent(t, "proc", i))
  /\ routed' = [routed EXCEPT ![i] = @ + 1]
  /\ CycleDone(i, t)

\* add_component_to_buffer_original_routing for a C1, up to its yield: when the
\* emptiest buffer is full, a put(1) against every buffer and a wait for any of
\* them; otherwise a put(1) into the emptiest buffer.
InspRouteOriginal(i) ==
  /\ Running
  /\ ev.kind = "init_sub" /\ ev.who = i /\ insp[i].pc = "start_route"
  /\ insp[i].current_component = "C1"
  /\ now' = ev.t
  /\ LET c == insp[i].cyc + 1
         full == level[most_empty_buffer(i)] = BUFFER_SIZE
         st == IF full THEN PutAll(Popped, InspBuffers[i], i, c, ev.t)
               ELSE Put(Popped, most_empty_buffer(i), i, c, ev.t)
     IN  /\ SetStore(st, st.queue)
         /\ insp' = [insp EXCEPT ![i].cyc = c, ![i].start = ev.t,
                                 ![i].pc = IF full THEN "wait_any" ELSE "wait_put"]
  /\ UNCHANGED <<cfg, phase, ws, started, inspected, routed, cycles, stats>>

\* filter(lambda x: x.will_accept(component), self.buffers)
BufferListAll(bs, component) == bs
RECURSIVE buffer_list(_, _)
buffer_list(bs, component) ==
  IF bs = <<>> THEN <<>>
  ELSE IF will_accept(Head(bs), component)
       THEN <<Head(bs)>> \o buffer_list(Tail(bs), component)
       ELSE buffer_list(Tail(bs), component)

\* add_component_to_buffer_insp_2 up to its yield: a put(1) into the first
\* buffer that accepts the component; with no such buffer it returns at once.
InspRouteInsp2(i) ==
  /\ Running
  /\ ev.kind = "init_sub" /\ ev.who = i /\ insp[i].pc = "start_route"
  /\ insp[i].current_component # "C1"
  /\ now' = ev.t
  /\ LET c == insp[i].cyc + 1
         bl == buffer_list(InspBuffers[i], insp[i].current_component)
     IN  IF Len(bl) > 0
         THEN LET st == Put(Popped, bl[1], i, c, ev.t)
              IN  /\ SetStore(st, st.queue)
                  /\ insp' = [insp EXCEPT ![i].cyc = c, ![i].start = ev.t,
                                          ![i].pc = "wait_put"]
                  /\ UNCHANGED <<routed, cycles>>
         ELSE /\ RouteDone(i, ev.t, rest)
              /\ insp' = [insp EXCEPT ![i].cyc = c, ![i].pc = "routed"]
              /\ UNCHANGED <<level, put_queue, get_queue, deposited, removed>>
  /\ UNCHANGED <<cfg, phase, ws, started, inspected, stats>>

\* The put event e is one the routing process of record r has yielded, alone
\* or in its any_of: a put of the routing step in progress.
YieldedAny(e, r) == TRUE
Yielded(e, r) == e.cyc = r.cyc

\* A put event is processed: the buffer serves its pending gets, then the
\* event's waiter runs.  The routing process waiting for this very put records
\* the end and returns; an any_of still pending triggers; a put of an any_of
\* that has already triggered has no waiter left.
InspPutEvent(i) ==
  /\ Running
  /\ ev.kind = "put" /\ ev.who = i
  /\ now' = ev.t
  /\ LET st == TriggerGet(Popped, ev.buf, ev.t)
         mine == Yielded(ev, insp[i])
     IN  IF mine /\ insp[i].pc = "wait_put"
         THEN /\ SetStore(st, Schedule(st.queue, NormalEvent(ev.t, "proc", i)))
              /\ routed' = [routed EXCEPT ![i] = @ + 1]
              /\ CycleDone(i, ev.t)
              /\ insp' = [insp EXCEPT ![i].pc = "routed", ![i].end = ev.t]
         ELSE IF mine /\ insp[i].pc = "wait_any"
         THEN /\ SetStore(st, Schedule(st.queue, NormalEvent(ev.t, "cond", i)))
              /\ insp' = [insp EXCEPT ![i].pc = "any_done"]
              /\ UNCHANGED <<routed, cycles>>
         ELSE /\ SetStore(st, st.queue)
              /\ UNCHANGED <<insp, routed, cycles>>
  /\ UNCHANGED <<cfg, phase, ws, started, inspected, stats>>

\* The any_of condition is processed: the routing process records the end and
\* returns.
InspAnyOf(i) ==
  /\ Running
  /\ ev.kind = "cond" /\ ev.who = i
  /\ now' = ev.t
  /\ RouteDone(i, ev.t, rest)
  /\ insp' = [insp EXCEPT ![i].pc = "routed", ![i].end = ev.t]
  /\ UNCHANGED <<cfg, phase, level, put_queue, get_queue, ws, deposited, removed,
                 started, inspected, stats>>

\* Inspector.record_stats
InspRecordStatsNoWait(r) ==
  [r EXCEPT !.total_amount_inspected[r.current_component] = @ + 1,
            !.inspection_times[r.current_component] = Append(@, r.current_inspection_time)]
InspRecordStats(r) ==
  [r EXCEPT !.total_amount_inspected[r.current_component] = @ + 1,
            !.wait_time = Append(@, r.end - r.start),
            !.inspection_times[r.current_component] = Append(@, r.current_inspection_time)]

\* main_loop resumes after the routing process: it records the cycle when the
\* cutoff has passed, and inspects the next component.
InspLoop(i) ==
  /\ Running
  /\ ev.kind = "proc" /\ ev.who = i /\ insp[i].pc = "routed"
  /\ now' = ev.t
  /\ queue' = Schedule(rest, InitEvent(ev.t, "init_sub", i))
  /\ insp' = [insp EXCEPT ![i] = [(IF RecordNow(ev.t, START_RECORDING)
                                   THEN InspRecordStats(@) ELSE @)
                                  EXCEPT !.pc = "start_inspect"]]
  /\ UNCHANGED <<cfg, phase, level, put_queue, get_queue, ws, hist, stats>>

\* ------------------------------------------------------- statistics engine

\* A floating-point result: a quotient num / den, or NaN.  A division of zero
\* by zero gives NaN (numpy warns and does not raise).
NaN == [nan |-> TRUE, num |-> 0, den |-> 0]
Divide(num, den) == [nan |-> (num = 0 /\ den = 0), num |-> num, den |-> den]
Number(n) == Divide(n, 1)

\* The one-element tuple that `np.nan,` builds.
Tuple1(x) == [tuple |-> <<x>>]

RECURSIVE SumSquares(_)
SumSquares(s) == IF s = <<>> THEN 0 ELSE Head(s) * Head(s) + SumSquares(Tail(s))

RECURSIVE CountNonZero(_)
CountNonZero(s) ==
  IF s = <<>> THEN 0 ELSE (IF Head(s) # 0 THEN 1 ELSE 0) + CountNonZero(Tail(s))

\* ndarray.mean and ndarray.var (the population variance) of a non-empty list.
Mean(s) == Divide(SumSeq(s), Len(s))
Var(s) == Divide(Len(s) * SumSquares(s) - SumSeq(s) * SumSeq(s), Len(s) * Len(s))

\* The mean over every sample, the zeros included.
MeanWithZeros(s) == IF s = <<>> THEN NaN ELSE Mean(s)

\* The zeros set to nan, then numpy.nanmean: NaN when every sample is zero.
NanMeanNonZero(s) == IF CountNonZero(s) = 0 THEN NaN ELSE Divide(SumSeq(s), CountNonZero(s))

\* The row calc_stats_workstation builds for one workstation.  Without an
\* assembly the mean and the variance are the tuple (nan,), stored as it is.
WorkstationRow(w, sim_duration, start_recording) ==
  LET r == ws[w]
      window == sim_duration - start_recording
  IN  IF r.total_amount_assembled = 0
      THEN [id |-> w, mean |-> Tuple1(NaN), variance |-> Tuple1(NaN), throughput |-> 0,
            total_idle_time |-> window - r.start,
            utilization |-> Number(0),
            average_idle_length |-> Number(window - r.start)]
      ELSE [id |-> w, mean |-> Mean(r.processing_time), variance |-> Var(r.processing_time),
            throughput |-> r.total_amount_assembled,
            total_idle_time |-> SumSeq(r.wait_time),
            utilization |-> Divide(window - SumSeq(r.wait_time), window),
            average_idle_length |-> NanMeanNonZero(r.wait_time)]

calc_stats_workstation(sim_duration, start_recording) ==
  [k \in 1..Len(workstation_list) |->
     WorkstationRow(workstation_list[k], sim_duration, start_recording)]

\* Without an inspection of the component the mean and the variance are the
\* tuple (nan,), which pd.to_numeric turns into a one-element array.
ArrayInRow(i, component) == insp[i].total_amount_inspected[component] = 0

\* The row calc_stats_inspector builds for one inspector and one component,
\* when pd.Series(..., dtype='float') takes a one-element array as its element.
InspectorRow(i, component, sim_duration, start_recording) ==
  LET r == insp[i]
      window == sim_duration - start_recording
      none == ArrayInRow(i, component)
  IN  [id |-> i, component |-> component,
       mean |-> IF none THEN NaN ELSE Mean(r.inspection_times[component]),
       variance |-> IF none THEN NaN ELSE Var(r.inspection_times[component]),
       throughput |-> r.total_amount_inspected[component],
       total_idle_time |-> SumSeq(r.wait_time),
       utilization |-> Divide(window - SumSeq(r.wait_time), window),
       average_idle_length |-> NanMeanNonZero(r.wait_time)]

RECURSIVE InspectorRows(_, _, _)
InspectorRows(is, sim_duration, start_recording) ==
  IF is = <<>> THEN <<>>
  ELSE [k \in 1..Len(InspComponents[Head(is)]) |->
          InspectorRow(Head(is), InspComponents[Head(is)][k], sim_duration, start_recording)]
       \o InspectorRows(Tail(is), sim_duration, start_recording)

calc_stats_inspector(sim_duration, start_recording) ==
  InspectorRows(inspector_list, sim_duration, start_recording)

\* What a sample list of an entity holds once the reduction has worked on the
\* array np.asarray made of it (the zeros of the array set to nan): the array
\* is a copy, so the list is as it was.
Emptied(l) == <<>>
asarray(l) == l

\* run_iteration after the run: the sample lists are appended to the module's
\* lists and then component_finish_times is read, an attribute that no
\* Workstation has: the AttributeError leaves run_iteration before the
\* Statistics Engine is called.
RecordValues ==
  /\ phase = "stopped"
  /\ phase' = "record_failed"
  /\ UNCHANGED <<cfg, now, queue, level, put_queue, get_queue, ws, insp, hist, stats>>

\* run_iteration calls calc_stats_workstation on the finished workstations.
\* (The call is modelled from the state the run stops in: the rows are what the
\* function returns for these entities.)
CalcStatsWorkstation ==
  /\ phase = "stopped"
  /\ phase' = "workstations_reported"
  /\ stats' = [stats EXCEPT !.workstation = calc_stats_workstation(SIM_TIME, START_RECORDING)]
  /\ ws' = [w \in Workstations |->
              [ws[w] EXCEPT !.processing_time = asarray(@), !.wait_time = asarray(@)]]
  /\ UNCHANGED <<cfg, now, queue, level, put_queue, get_queue, insp, hist>>

\* Then calc_stats_inspector on the finished inspectors.
CalcStatsInspector ==
  /\ phase = "workstations_reported"
  /\ phase' = "reported"
  /\ stats' = [stats EXCEPT !.inspector = calc_stats_inspector(SIM_TIME, START_RECORDING)]
  /\ insp' = [i \in Inspectors |->
                [insp[i] EXCEPT !.wait_time = asarray(@),
                                !.inspection_times = [c \in DOMAIN @ |-> asarray(@[c])]]]
  /\ UNCHANGED <<cfg, now, queue, level, put_queue, get_queue, ws, hist>>

\* A row that holds a one-element array where a float is required: whether
\* pd.Series converts it or raises ValueError depends on the installed numpy
\* and pandas, so both outcomes are possible.
CalcStatsInspectorRaises ==
  /\ phase = "workstations_reported"
  /\ \E i \in Inspectors : \E k \in 1..Len(InspComponents[i]) :
       ArrayInRow(i, InspComponents[i][k])
  /\ phase' = "reduce_failed"
  /\ UNCHANGED <<cfg, now, queue, level, put_queue, get_queue, ws, insp, hist, stats>>

\* What a replication that has returned leaves behind: its rows in
\* workstation_stats[iteration] and inspector_stats[iteration], the sample
\* lists appended to the module-level lists (inside ws), and, for comparison
\* only, the state in which it ended.
Finished ==
  [seed |-> seed, workstation |-> stats.workstation, inspector |-> stats.inspector,
   now |-> now, queue |-> queue, level |-> level, put_queue |-> put_queue,
   get_queue |-> get_queue, ws |-> ws, insp |-> insp, hist |-> hist]

\* What run_iteration leaves of an object of the previous replication when it
\* constructs the object again: nothing, the name is bound to the new object.
Reused(old, new) == old
Fresh(old, new) == new

\* The loop of __main__ calls run_iteration with the next seed of seed_list:
\* a new environment, new buffers and new entities, and random.seed(seed).
NextReplication ==
  /\ phase = "reported"
  /\ iteration < Len(cfg.seed_list)
  /\ phase' = "new"
  /\ stats' = [NoStats EXCEPT !.earlier = Append(stats.earlier, Finished)]
  /\ now' = 0
  /\ queue' = <<>>
  /\ level' = Fresh(level, NewBuffers)
  /\ put_queue' = [b \in Buffers |-> <<>>]
  /\ get_queue' = [b \in Buffers |-> <<>>]
  /\ ws' = [w \in Workstations |-> NewWorkstation]
  /\ insp' = [i \in Inspectors |-> NewInspector(i)]
  /\ deposited' = [b \in Buffers |-> 0]
  /\ removed' = [b \in Buffers |-> 0]
  /\ started' = [w \in Workstations |-> 0]
  /\ inspected' = [i \in Inspectors |-> 0]
  /\ routed' = [i \in Inspectors |-> 0]
  /\ cycles' = [e \in Workstations \cup Inspectors |-> [pre |-> 0, post |-> 0, last |-> 0]]
  /\ UNCHANGED cfg

\* ----------------------------------------------------------- specification

Next ==
  \/ Construct
  \/ StartProcesses
  \/ RunUntil
  \/ Until
  \/ MainFail
  \/ RecordValues
  \/ CalcStatsWorkstation
  \/ CalcStatsInspector
  \/ CalcStatsInspectorRaises
  \/ NextReplication
  \/ \E w \in Workstations :
       \/ WsInitMain(w)
       \/ WsGetComponents(w)
       \/ WsGetEvent(w)
       \/ WsGathered(w)
       \/ WsStartAssemble(w)
       \/ WsAssemble(w)
       \/ WsAssembled(w)
       \/ WsLoop(w)
       \/ WsProcFail(w)
  \/ \E i \in Inspectors :
       \/ InspInitMain(i)
       \/ InspInspect(i)
       \/ InspInspected(i)
       \/ InspStartRoute(i)
       \/ InspRouteOriginal(i)
       \/ InspRouteInsp2(i)
       \/ InspPutEvent(i)
       \/ InspAnyOf(i)
       \/ InspLoop(i)

Spec == Init /\ [][Next]_vars

\* ------------------------------------------------- replication-count analysis

\* The number of replications in the data frame handed to the analysis.
AnalysisRuns == 3

\* The values the chosen column takes for a workstation, and the criteria.
ColumnValues(w) == IF w = "ws1" THEN {0, 8, 10, 12} ELSE {10, 12}
Criteria == {Divide(1, 100), Divide(1, 20)}

RECURSIVE GCD(_, _)
GCD(a, b) == IF b = 0 THEN a ELSE GCD(b, a % b)

\* A quotient in lowest terms; x / 0 is left as it is (inf, or NaN for 0 / 0).
Reduced(x) ==
  IF x.den = 0 THEN x
  ELSE LET g == GCD(x.num, x.den) IN Divide(x.num \div g, x.den \div g)

Times(a, b) ==
  IF a.nan \/ b.nan THEN NaN
  ELSE LET l == Reduced(Divide(a.num, b.den))
           r == Reduced(Divide(b.num, a.den))
       IN  Reduced(Divide(l.num * r.num, l.den * r.den))

\* a / b in float arithmetic: 0 / 0 is NaN, nothing raises.
Over(a, b) ==
  IF a.nan \/ b.nan \/ (a.num = 0 /\ b.num = 0) THEN NaN
  ELSE Times(a, Divide(b.den, b.num))

\* groupby(...).mean() of a column.
GroupMean(col) == Reduced(Divide(SumSeq(col), Len(col)))

\* The square of groupby(...).std(): pandas' sample variance, one degree of
\* freedom taken off; NaN for a single replication.
GroupVar(col) ==
  Reduced(Divide(Len(col) * SumSquares(col) - SumSeq(col) * SumSeq(col),
                 Len(col) * (Len(col) - 1)))

\* The non-negative root of a number, kept by its square.
Root(x) == [root_of |-> x]

\* row['mean'] * criterion_percentage
ErrorCriterionAbsolute(mean, criterion_percentage) == criterion_percentage
error_criterion(mean, criterion_percentage) == Times(mean, criterion_percentage)

\* The square of stats.norm.ppf(1 - (0.05 / 2)) = 1.959964..., between
\* lo / den and hi / den.
ppf975Squared == [lo |-> 38414, hi |-> 38416, den |-> 10000]

\* ((std_dev * z) / error_criterion) ** 2, for means that are not negative:
\* the square of the standard deviation over the square of the criterion, in
\* units of the square of z.
num_replications(std_dev, criterion) ==
  [z2coef |-> Over(std_dev.root_of, Times(criterion, criterion))]

\* The row of calculate_workstation_replications for one workstation.
ReplicationsRow(col, criterion_percentage, iterations) ==
  LET mean == GroupMean(col)
      std_dev == Root(GroupVar(col))
      criterion == error_criterion(mean, criterion_percentage)
  IN  [R |-> iterations, mean |-> mean, std_dev |-> std_dev,
       error_criterion |-> criterion,
       num_replications |-> num_replications(std_dev, criterion)]

\* The analysis starts from a data frame of AnalysisRuns rows per workstation;
\* the simulation itself is not run.
InitAnalysis ==
  /\ cfg = LineConfig
  /\ phase = "data"
  /\ now = 0
  /\ queue = <<>>
  /\ level = NewBuffers
  /\ put_queue = [b \in Buffers |-> <<>>]
  /\ get_queue = [b \in Buffers |-> <<>>]
  /\ ws = [w \in Workstations |-> NewWorkstation]
  /\ insp = [i \in Inspectors |-> NewInspector(i)]
  /\ deposited = [b \in Buffers |-> 0]
  /\ removed = [b \in Buffers |-> 0]
  /\ started = [w \in Workstations |-> 0]
  /\ inspected = [i \in Inspectors |-> 0]
  /\ routed = [i \in Inspectors |-> 0]
  /\ cycles = [e \in Workstations \cup Inspectors |-> [pre |-> 0, post |-> 0, last |-> 0]]
  /\ \E c1 \in [1..AnalysisRuns -> ColumnValues("ws1")] :
       \E c2 \in [1..AnalysisRuns -> ColumnValues("ws2")] :
         \E c3 \in [1..AnalysisRuns -> ColumnValues("ws3")] :
           \E criterion_percentage \in Criteria :
             stats = [data |-> [ws1 |-> c1, ws2 |-> c2, ws3 |-> c3],
                      criterion_percentage |-> criterion_percentage,
                      iterations |-> AnalysisRuns, df |-> <<>>]

calculate_workstation_replications ==
  /\ phase = "data"
  /\ phase' = "estimated"
  /\ stats' = [stats EXCEPT !.df =
                 [w \in Workstations |->
                    ReplicationsRow(stats.data[w], stats.criterion_percentage,
                                    stats.iterations)]]
  /\ UNCHANGED <<cfg, now, queue, level, put_queue, get_queue, ws, insp, hist>>

NextAnalysis == calculate_workstation_replications

SpecAnalysis == InitAnalysis /\ [][NextAnalysis]_vars

\* ------------------------------------------------------------------ claims

\* The consumer of each buffer, as run_iteration wires the line.
BuffersOf(w) == SeqToSet(cfg.ws_buffers[w])
Gathering(w) == ws[w].pc = "gathering"
Assembling(w) == ws[w].pc = "assembling"
Blocked(i) == insp[i].pc \in {"wait_put", "wait_any"}

\* C1: in every reachable state every buffer's level is between 0 and its
\* capacity.
C1_LevelWithinCapacity ==
  \A b \in Buffers : 0 <= level[b] /\ level[b] <= BUFFER_SIZE

\* A full buffer with a put waiting on it, and an empty one with a get waiting.
C1_Witness ==
  /\ \E b \in Buffers : level[b] = BUFFER_SIZE /\ put_queue[b] # <<>>
  /\ \E b \in Buffers : level[b] = 0 /\ get_queue[b] # <<>>

\* Units deposited into the buffers of inspector 1.
DepositedC1 == deposited["w1c1"] + deposited["w2c1"] + deposited["w3c1"]

\* C2: each completed routing step of inspector 1 deposits exactly one unit:
\* the units deposited into its buffers never exceed the components it has
\* inspected, are at most one ahead of the routing steps it has completed, and
\* equal them whenever it is not in a routing step.
C2_OneUnitPerRoutingStep ==
  /\ DepositedC1 <= inspected["insp1"]
  /\ DepositedC1 <= routed["insp1"] + 1
  /\ (insp["insp1"].pc \in {"start_inspect", "inspecting", "inspected"}
        => DepositedC1 = routed["insp1"])

\* C3: a workstation starts an assembly only once a get has completed on every
\* one of its required buffers: the units removed from each of its buffers
\* equal the assemblies it has started, plus one exactly between the moment
\* the buffer's get of the current gather is served and the start of assembly.
C3_AssemblyAfterAllGets ==
  \A w \in Workstations : \A b \in BuffersOf(w) :
    /\ started[w] <= removed[b] /\ removed[b] <= started[w] + 1
    /\ (ws[w].pc \in {"all_done", "gathered", "start_asm"} => removed[b] = started[w] + 1)
    /\ (ws[w].pc \in {"new", "start_get", "assembling", "assembled"} => removed[b] = started[w])

\* Workstation 2 is assembling its second product while workstation 3 holds
\* its C1 and still waits for a C3.
C3_Witness ==
  /\ Assembling("ws2") /\ started["ws2"] = 2
  /\ Gathering("ws3")
  /\ removed["w3c1"] = started["ws3"] + 1 /\ removed["w3c3"] = started["ws3"]

\* The accumulators record_stats writes.
WsAcc(r) == <<r.total_amount_assembled, r.wait_time, r.processing_time>>
InspAcc(r) == <<r.total_amount_inspected, r.wait_time, r.inspection_times>>

\* Samples and counts of an inspector, over its components.
RECURSIVE SumOver(_, _)
SumOver(f, cs) == IF cs = <<>> THEN 0 ELSE f[Head(cs)] + SumOver(f, Tail(cs))
InspCount(i) == SumOver(insp[i].total_amount_inspected, InspComponents[i])
InspSamples(i) ==
  SumOver([c \in DOMAIN insp[i].inspection_times |-> Len(insp[i].inspection_times[c])],
          InspComponents[i])

\* C4: the step in which a main loop resumes after a completed cycle appends
\* one sample to every list and increments the count exactly when the instant
\* the cycle completed is at or after the cutoff, and changes no accumulator
\* otherwise; no other step of the replication changes an accumulator.
C4_WarmupExclusion ==
  [][ iteration' = iteration =>
      /\ \A w \in Workstations :
           IF ws[w].pc = "assembled" /\ ws'[w].pc # "assembled"
              /\ cycles[w].last >= START_RECORDING
           THEN /\ ws'[w].total_amount_assembled = ws[w].total_amount_assembled + 1
                /\ Len(ws'[w].wait_time) = Len(ws[w].wait_time) + 1
                /\ Len(ws'[w].processing_time) = Len(ws[w].processing_time) + 1
           ELSE WsAcc(ws'[w]) = WsAcc(ws[w])
      /\ \A i \in Inspectors :
           IF insp[i].pc = "routed" /\ insp'[i].pc # "routed"
              /\ cycles[i].last >= START_RECORDING
           THEN /\ insp'[i].total_amount_inspected[insp[i].current_component]
                     = insp[i].total_amount_inspected[insp[i].current_component] + 1
                /\ Len(insp'[i].wait_time) = Len(insp[i].wait_time) + 1
                /\ Len(insp'[i].inspection_times[insp[i].current_component])
                     = Len(insp[i].inspection_times[insp[i].current_component]) + 1
           ELSE InspAcc(insp'[i]) = InspAcc(insp[i]) ]_vars

\* A workstation and an inspector that each completed a cycle before the
\* cutoff and one exactly at it, the latter recorded.
C4_Witness ==
  /\ \E w \in Workstations :
       /\ cycles[w].pre >= 1 /\ cycles[w].last = START_RECORDING
       /\ ws[w].total_amount_assembled = 1
  /\ \E i \in Inspectors :
       /\ cycles[i].pre >= 1 /\ cycles[i].last = START_RECORDING
       /\ Len(insp[i].wait_time) = 1

\* Cycles of entity e completed at or after the cutoff whose main loop has
\* resumed (the last one may be awaiting it, at the same instant).
Recordable(e, pending) ==
  cycles[e].post - (IF pending /\ cycles[e].last >= START_RECORDING THEN 1 ELSE 0)

\* C5: for every inspector the per-component counts sum to the number of
\* inspection samples and to the number of wait samples; for every workstation
\* the count equals the numbers of wait and processing samples; and each equals
\* the number of cycles completed at or after the cutoff.
C5_CountsMatchSamples ==
  /\ \A i \in Inspectors :
       /\ InspCount(i) = InspSamples(i)
       /\ InspCount(i) = Len(insp[i].wait_time)
       /\ InspCount(i) = Recordable(i, insp[i].pc = "routed")
  /\ \A w \in Workstations :
       /\ ws[w].total_amount_assembled = Len(ws[w].wait_time)
       /\ ws[w].total_amount_assembled = Len(ws[w].processing_time)
       /\ ws[w].total_amount_assembled = Recordable(w, ws[w].pc = "assembled")

\* Inspector 2 has recorded both of its components, and a workstation has
\* recorded an assembly, all after unrecorded cycles.
C5_Witness ==
  /\ insp["insp2"].total_amount_inspected["C2"] >= 1
  /\ insp["insp2"].total_amount_inspected["C3"] >= 1
  /\ cycles["insp2"].pre >= 1
  /\ \E w \in Workstations : ws[w].total_amount_assembled >= 1 /\ cycles[w].pre >= 1

\* The run of the line as run_iteration wires it.
LineRun == cfg.ws_buffers = LineWsBuffers

\* C6: the simulation of the line never fails and stops exactly at the
\* horizon: while it runs the stop event is pending and the clock is before
\* the horizon; once stopped the clock is at the horizon, every counted cycle
\* completed before it, and the counts are those of the cycles completed from
\* the cutoff on.
C6_StopsAtHorizon ==
  LineRun =>
    /\ phase # "crashed"
    /\ now <= SIM_TIME
    /\ phase = "running" =>
         /\ now < SIM_TIME
         /\ \E k \in 1..Len(queue) : queue[k].kind = "until" /\ queue[k].t = SIM_TIME
    /\ phase \notin {"new", "built", "started", "running", "crashed"} =>
         /\ now = SIM_TIME
         /\ \A e \in Workstations \cup Inspectors : cycles[e].last < SIM_TIME
         /\ \A w \in Workstations : ws[w].total_amount_assembled = cycles[w].post
         /\ \A i \in Inspectors : InspCount(i) = cycles[i].post

\* The run has stopped with an inspector blocked on a put, another inspecting,
\* a workstation assembling and another gathering.
C6_Witness ==
  /\ phase = "stopped"
  /\ \E i \in Inspectors : Blocked(i)
  /\ \E i \in Inspectors : insp[i].pc = "inspecting"
  /\ \E w \in Workstations : Assembling(w)
  /\ \E w \in Workstations : Gathering(w)

\* A quotient that is a number between 0 and 1.
InUnitInterval(u) ==
  /\ ~u.nan
  /\ u.den # 0
  /\ IF u.den > 0 THEN 0 <= u.num /\ u.num <= u.den ELSE u.den <= u.num /\ u.num <= 0

Rows(table) == {table[k] : k \in 1..Len(table)}
Window == SIM_TIME - START_RECORDING

\* C7: with the cutoff at or before the horizon, the reported utilization of
\* every workstation and inspector that recorded at least one cycle is between
\* 0 and 1.
C7_UtilizationInUnitInterval ==
  START_RECORDING <= SIM_TIME =>
    /\ \A r \in Rows(stats.workstation) :
         ws[r.id].total_amount_assembled >= 1 => InUnitInterval(r.utilization)
    /\ \A r \in Rows(stats.inspector) :
         InspCount(r.id) >= 1 => InUnitInterval(r.utilization)

\* A cell that holds NaN, as a float or inside the one-element tuple.
ReportsNaN(x) == x \in {NaN, Tuple1(NaN)}

\* C8: the row of an entity that completed no cycle reports mean and variance
\* as NaN, throughput 0 and the whole post-warm-up window as idle time.
C8_ZeroCyclesRow ==
  /\ \A r \in Rows(stats.workstation) :
       ws[r.id].total_amount_assembled = 0 =>
         /\ ReportsNaN(r.mean) /\ ReportsNaN(r.variance) /\ r.throughput = 0
         /\ r.total_idle_time = Window
  /\ \A r \in Rows(stats.inspector) :
       insp[r.id].total_amount_inspected[r.component] = 0 =>
         /\ ReportsNaN(r.mean) /\ ReportsNaN(r.variance) /\ r.throughput = 0
         /\ r.total_idle_time = Window

\* C9: when horizon - warm-up is 0 the reduction completes and every
\* workstation row and every inspector row reports utilization as NaN.
C9_NoWindowUtilizationNaN ==
  Window = 0 =>
    /\ phase # "reduce_failed"
    /\ \A r \in Rows(stats.workstation) : r.utilization.nan
    /\ \A r \in Rows(stats.inspector) : r.utilization.nan

\* A workstation was given an empty list of required buffers.
SomeNoBuffers == \E w \in Workstations : cfg.ws_buffers[w] = <<>>

\* C10 as stated: a workstation with no required buffers is rejected when it
\* is created, so the construction of the entities never completes.
C10_RejectedAtConstruction ==
  SomeNoBuffers => phase \in {"new", "crashed"}

\* C10, amended: a workstation with no required buffers is created like any
\* other and rejected by its first get_components: the run fails at simulated
\* time 0, before any buffer level has changed, the workstation never gathers
\* or assembles, and the run never reaches its horizon.
C10_RejectedAtFirstGather ==
  SomeNoBuffers =>
    /\ now = 0
    /\ \A b \in Buffers : level[b] = 0 /\ deposited[b] = 0 /\ removed[b] = 0
    /\ phase \in {"new", "built", "started", "running", "crashed"}
    /\ \A w \in Workstations :
         cfg.ws_buffers[w] = <<>> =>
           /\ ws[w].pc \in {"new", "start_get", "raised", "dead"}
           /\ ws[w].cyc = 0 /\ started[w] = 0
           /\ (phase = "crashed" => ws[w].pc = "dead")

\* The run has failed on the workstation without buffers after the other
\* entities had started.
C10_Witness ==
  /\ phase = "crashed"
  /\ ws["ws1"].pc = "dead" /\ cfg.ws_buffers["ws1"] = <<>>
  /\ Gathering("ws2") /\ insp["insp1"].pc = "inspecting"

\* The entities in the order run_iteration starts their processes.
StartOrder == workstation_list \o inspector_list
Pc(e) == IF e \in Workstations THEN ws[e].pc ELSE insp[e].pc

\* The replication has left main_env.run at its horizon.
PastHorizon == phase \in {"stopped", "workstations_reported", "reported"}

\* The state in which the replication ended is the one recorded in e.
SameEnd(e) ==
  /\ now = e.now /\ queue = e.queue /\ level = e.level
  /\ put_queue = e.put_queue /\ get_queue = e.get_queue
  /\ ws = e.ws /\ insp = e.insp /\ hist = e.hist

CleanStart ==
  /\ now = 0
  /\ level = [b \in Buffers |-> 0]
  /\ put_queue = [b \in Buffers |-> <<>>] /\ get_queue = [b \in Buffers |-> <<>>]
  /\ \A w \in Workstations : WsAcc(ws[w]) = <<0, <<>>, <<>>>> /\ ws[w].pc = "new"
  /\ \A i \in Inspectors :
       /\ insp[i].wait_time = <<>> /\ insp[i].pc = "new"
       /\ \A c \in SeqToSet(InspComponents[i]) :
            insp[i].total_amount_inspected[c] = 0 /\ insp[i].inspection_times[c] = <<>>
  /\ stats.workstation = <<>> /\ stats.inspector = <<>>

C13_EveryRunYieldsRows ==
  /\ phase \notin {"record_failed", "reduce_failed"}
  /\ phase = "reported" =>
       /\ [k \in 1..Len(stats.workstation) |-> stats.workstation[k].id] = <<"ws1", "ws2", "ws3">>
       /\ [k \in 1..Len(stats.inspector) |-> <<stats.inspector[k].id, stats.inspector[k].component>>]
            = << <<"insp1", "C1">>, <<"insp2", "C2">>, <<"insp2", "C3">> >>

ServedFromHead(old, new, k) ==
  /\ Len(new) >= Len(old) - k
  /\ \A j \in 1..(Len(old) - k) : new[j] = old[j + k]

\* The event of a request completed at this instant is in the queue.
Completing(kind, b) ==
  \E k \in 1..Len(queue) : queue[k].kind = kind /\ queue[k].buf = b /\ queue[k].t = now

\* C15: the pending puts of a buffer complete in the order they were issued,
\* and so do its pending gets: in every step of the run the requests that
\* complete are the first of the queue, a request issued in the step completes
\* only when none issued earlier stays pending, the level changes by the
\* number of puts completed less the number of gets completed, and a put
\* stays pending with room in the buffer only at the instant of the get that
\* made the room, whose event is still to be processed.
C15_WaitersServedInOrder ==
  [][ (phase = "running" /\ phase' = "running") =>
        \A b \in Buffers :
          /\ ServedFromHead(put_queue[b], put_queue'[b], deposited'[b] - deposited[b])
          /\ ServedFromHead(get_queue[b], get_queue'[b], removed'[b] - removed[b])
          /\ level'[b] - level[b] =
               (deposited'[b] - deposited[b]) - (removed'[b] - removed[b])
          /\ (put_queue'[b] # <<>> /\ level'[b] < BUFFER_SIZE) => Completing("get", b)'
          /\ (get_queue'[b] # <<>> /\ level'[b] > 0) => Completing("put", b)' ]_vars

\* A put on a buffer has completed while a put issued later on the same buffer
\* is still pending.
C15_Witness ==
  \E b \in Buffers : \E k \in 1..Len(queue) :
    /\ queue[k].kind = "put" /\ queue[k].buf = b
    /\ put_queue[b] # <<>>
    /\ Head(put_queue[b]).cyc > queue[k].cyc

\* A number rounded to tenths, for a number that is not negative.
Tenths(num, den) == (20 * num + den) \div (2 * den)

\* C16: in every row of the replication estimate the mean is the column's sum
\* over the number of replications, the standard deviation is the root of the
\* sample variance, and the number of replications is the square of z times
\* the standard deviation over the product of the criterion percentage and the
\* mean; with mean 10, standard deviation 2 and percentage 0.01 it is 1536.6
\* to one decimal.
C16_ReplicationEstimate ==
  phase = "estimated" =>
    \A w \in Workstations :
      LET col == stats.data[w]
          n == Len(col)
          sum == SumSeq(col)
          dev == n * SumSquares(col) - sum * sum
          p == stats.criterion_percentage
          row == stats.df[w]
          q == row.num_replications.z2coef
      IN  /\ row.R = n
          /\ row.mean.num * n = sum * row.mean.den
          /\ row.std_dev.root_of.num * n * (n - 1) = dev * row.std_dev.root_of.den
          /\ IF sum = 0 THEN q.nan
             ELSE LET e == Reduced(Divide(p.num * sum, p.den * n))
                  IN  /\ ~q.nan
                      /\ Times(q, Times(e, e)) = Reduced(Divide(dev, n * (n - 1)))
          /\ (row.mean = Number(10) /\ row.std_dev = Root(Number(4)) /\ p = Divide(1, 100)) =>
               /\ Tenths(q.num * ppf975Squared.lo, q.den * ppf975Squared.den) = 15366
               /\ Tenths(q.num * ppf975Squared.hi, q.den * ppf975Squared.den) = 15366

\* The estimate has been computed for a column of mean 10 and standard
\* deviation 2 at one per cent, beside a column of zeros.
C16_Witness ==
  /\ phase = "estimated"
  /\ stats.criterion_percentage = Divide(1, 100)
  /\ stats.df["ws1"].mean = Number(10)
  /\ stats.df["ws1"].std_dev = Root(Number(4))
  /\ stats.df["ws2"].std_dev = Root(Number(0))

\* The buffer of list bs with the lowest level, the earliest of them at a tie.
LowestEarliest(bs, lvl) ==
  bs[CHOOSE k \in 1..Len(bs) :
       \A j \in 1..Len(bs) :
         lvl[bs[k]] < lvl[bs[j]] \/ (lvl[bs[k]] = lvl[bs[j]] /\ k <= j)]

\* Inspector 1 issues the puts of a routing step.
RoutesC1(i) ==
  /\ phase = "running" /\ phase' = "running"
  /\ i = "insp1"
  /\ insp[i].pc = "start_route" /\ insp'[i].pc # "start_route"

\* The put that entity i issued in cycle cyc on buffer b has completed.
PutCompleted(q, i, b, cyc) ==
  \E k \in 1..Len(q) : q[k].kind = "put" /\ q[k].who = i /\ q[k].buf = b /\ q[k].cyc = cyc

\* C17: when inspector 1 routes a C1 and the first of the lowest buffers of
\* its list is below capacity, the unit is put into that buffer and the put
\* completes in the step, the level of that buffer rises by one, and the
\* levels of all other buffers stay as they are.
C17_PriorityRouting ==
  [][ \A i \in Inspectors :
        LET sel == LowestEarliest(InspBuffers[i], level)
        IN  (RoutesC1(i) /\ level[sel] < BUFFER_SIZE) =>
              /\ insp'[i].pc = "wait_put"
              /\ PutCompleted(queue', i, sel, insp'[i].cyc)
              /\ level'[sel] = level[sel] + 1
              /\ \A b \in Buffers \ {sel} : level'[b] = level[b] ]_vars

\* The buffers of inspector i that a workstation with no other buffer consumes.
SoleSupply(i, w) ==
  IF Len(cfg.ws_buffers[w]) = 1
  THEN SeqToSet(cfg.ws_buffers[w]) \cap SeqToSet(InspBuffers[i])
  ELSE {}

\* C18: inspector 1, suspended on a put against each of its buffers since it
\* found them all full, is resumed at the first instant at which a unit is
\* removed from one of them: it is never still suspended after an instant,
\* later than its routing start, at which a workstation took a unit from one
\* of these buffers.  A workstation fed by one buffer starts to assemble at
\* the instant it takes the unit.
C18_ResumedAtFirstRemoval ==
  \A i \in Inspectors : \A w \in Workstations :
    (phase \in {"running", "stopped"} /\ insp[i].pc = "wait_any" /\ SoleSupply(i, w) # {}) =>
      ~(insp[i].start < ws[w].start /\ ws[w].start < now)

\* The component an inspector holds while a put of its is pending or completing.
Held(i) == insp[i].current_component

\* Every put pending on a buffer and every put completed on it carries a
\* component of the type the buffer accepts.
TypeSafe ==
  /\ \A b \in Buffers : \A k \in 1..Len(put_queue[b]) :
       Held(put_queue[b][k].who) = accepts[b]
  /\ \A k \in 1..Len(queue) :
       queue[k].kind = "put" => Held(queue[k].who) = accepts[queue[k].buf]

\* Inspector 2 issues the put of a routing step.
RoutesInsp2(i) ==
  /\ phase = "running" /\ phase' = "running"
  /\ i = "insp2"
  /\ insp[i].pc = "start_route" /\ insp'[i].pc # "start_route"

\* Buffer b has a request or a unit it did not have before the step.
Touched(b) ==
  \/ level'[b] # level[b]
  \/ put_queue'[b] # put_queue[b]
  \/ deposited'[b] # deposited[b]

\* C19: inspector 2 puts a C2 only into w2c2 and a C3 only into w3c3, the
\* first buffer of its list that accepts the component, and puts it there
\* whenever its list has such a buffer; and at every instant every put,
\* pending or completed, is of a component of the type its buffer accepts.
C19_FirstMatchRouting ==
  [][ /\ TypeSafe'
      /\ \A i \in Inspectors :
           RoutesInsp2(i) =>
             LET c == Held(i)
                 own == {b \in SeqToSet(InspBuffers[i]) : accepts[b] = c}
             IN  /\ \A b \in Buffers :
                      Touched(b) => /\ b \in own
                                    /\ c = "C2" => b = "w2c2"
                                    /\ c = "C3" => b = "w3c3"
                 /\ own # {} => \E b \in own : Touched(b) ]_vars

\* Inspector 2 has deposited a C2 and a C3 and waits with a component on a
\* full buffer.
C19_Witness ==
  /\ deposited["w2c2"] > 0
  /\ deposited["w3c3"] > 0
  /\ \E b \in Buffers : \E k \in 1..Len(put_queue[b]) : put_queue[b][k].who = "insp2"

\* Inspector i holds a component that none of its buffers accepts, and is
\* between the end of its inspection and the start of the next one.
Dropping(i) ==
  /\ phase = "running"
  /\ insp[i].pc \in {"start_route", "routed", "start_inspect"}
  /\ \A b \in SeqToSet(InspBuffers[i]) : accepts[b] # Held(i)

\* C20: from the instant inspector 2 ends the inspection of a component that
\* none of its buffers accepts until it starts the next inspection, no unit
\* is deposited into its buffers, no put of the inspector is pending, the
\* routing returns in the step that starts it and changes no level, no put
\* queue and no count of deposits, and the clock does not advance.
C20_DroppedWithoutStall ==
  [][ \A i \in Inspectors :
        (i = "insp2" /\ Dropping(i)) =>
          /\ now' = now
          /\ \A b \in SeqToSet(InspBuffers[i]) : deposited'[b] = deposited[b]
          /\ \A b \in Buffers : \A k \in 1..Len(put_queue'[b]) : put_queue'[b][k].who # i
          /\ (insp[i].pc = "start_route" /\ insp'[i].pc # "start_route") =>
               /\ insp'[i].pc = "routed"
               /\ \A b \in Buffers : ~Touched(b) ]_vars

\* Inspector 2, with w2c2 as its only buffer, has routed more components than
\* it has deposited and is inspecting the next one.
C20_Witness ==
  /\ cfg.insp_buffers["insp2"] = <<"w2c2">>
  /\ routed["insp2"] > deposited["w2c2"]
  /\ insp["insp2"].pc = "inspecting"

\* Inspector i is between the end of an inspection and the return of the
\* routing process for the inspected unit.
Routing(i) == insp[i].pc \in {"inspected", "start_route", "wait_put", "wait_any", "any_done"}

\* The inspection timeouts of inspector i that are under way.
Timeouts(i) == {k \in 1..Len(queue) : queue[k].kind = "timeout" /\ queue[k].who = i}

\* The units deposited into the buffers that inspector i feeds.
RECURSIVE Deposits(_)
Deposits(bs) == IF bs = <<>> THEN 0 ELSE deposited[Head(bs)] + Deposits(Tail(bs))

\* Every component of inspector i has a buffer of its list that accepts it.
NeverDrops(i) ==
  \A c \in SeqToSet(InspComponents[i]) : \E b \in SeqToSet(InspBuffers[i]) : accepts[b] = c

\* In state terms: an inspector has one inspected unit not yet routed while it
\* is routing and none otherwise, has an inspection under way only while
\* inspecting, and has routed no more units than were deposited.
Alternates ==
  \A i \in Inspectors :
    /\ inspected[i] - routed[i] = IF Routing(i) THEN 1 ELSE 0
    /\ Cardinality(Timeouts(i)) = IF insp[i].pc = "inspecting" THEN 1 ELSE 0
    /\ NeverDrops(i) => Deposits(InspBuffers[i]) >= routed[i]

\* C21: an inspector alternates inspecting and routing.  It holds one
\* inspected unit while routing and none otherwise, no inspection is under
\* way while it routes, and it leaves a wait on a put only in the step that
\* processes the completion of a put it issued for the unit it holds, so it
\* begins no inspection while that unit is neither deposited nor dropped.
C21_StrictAlternation ==
  [][ (phase' \in {"started", "running", "stopped"}) =>
        /\ Alternates'
        /\ \A i \in Inspectors :
             (insp[i].pc \in {"wait_put", "wait_any"} /\ insp'[i].pc # insp[i].pc) =>
               /\ insp'[i].pc = IF insp[i].pc = "wait_put" THEN "routed" ELSE "any_done"
               /\ Head(queue).kind = "put" /\ Head(queue).who = i
               /\ Head(queue).cyc = insp[i].cyc
               /\ deposited[Head(queue).buf] > 0 ]_vars

\* An inspector that has routed units before has been waiting on a put since
\* an earlier instant.
C21_Witness ==
  \E i \in Inspectors :
    /\ phase = "running"
    /\ insp[i].pc \in {"wait_put", "wait_any"}
    /\ insp[i].start < now
    /\ routed[i] >= 2

\* Workstation w, the only consumer of buffer b, has withdrawn from b the unit
\* of its current cycle.
Got(w, b) == removed[b] >= ws[w].cyc

\* Workstation w is between the start of a gather and the start of the
\* assembly that follows it.
BeforeAssembly(w) == ws[w].pc \in {"gathering", "all_done", "gathered", "start_asm"}

Last(s) == s[Len(s)]

\* C22: a workstation with two buffers notes the instant its gather starts;
\* it takes a unit in the instant the unit arrives; it stays gathering while
\* the clock advances only if one of its buffers has not yet given a unit, and
\* leaves gathering only when both have; from the last of the two it starts to
\* assemble in the same instant; and the wait sample it records for the cycle
\* is the instant the assembly started less the instant the gather started.
C22_WaitIsLaterArrival ==
  [][ \A w \in Workstations :
        (phase = "running" /\ phase' = "running" /\ Len(cfg.ws_buffers[w]) = 2) =>
          LET bs == SeqToSet(cfg.ws_buffers[w])
          IN  /\ (ws[w].pc # "gathering" /\ ws'[w].pc = "gathering") => ws'[w].wait = now'
              /\ (ws[w].pc = "gathering" /\ now' > now) =>
                   \E b \in bs : ~Got(w, b) /\ level[b] = 0
              /\ (ws[w].pc = "gathering" /\ ws'[w].pc # "gathering") =>
                   \A b \in bs : Got(w, b)
              /\ (BeforeAssembly(w) /\ \A b \in bs : Got(w, b)) => now' = now
              /\ (ws[w].pc = "start_asm" /\ ws'[w].pc = "assembling") => ws'[w].start = now
              /\ Len(ws'[w].wait_time) > Len(ws[w].wait_time) =>
                   Last(ws'[w].wait_time) = ws[w].start - ws[w].wait ]_vars

\* Workstation 2 has recorded its first cycle, whose gather started at instant
\* 0 on two empty buffers, with a wait that is not zero.
C22_Witness ==
  /\ Len(cfg.ws_buffers["ws2"]) = 2
  /\ cycles["ws2"].pre = 0 /\ cycles["ws2"].post = 1
  /\ Len(ws["ws2"].wait_time) = 1
  /\ ws["ws2"].wait_time[1] > 0
  /\ ws["ws2"].wait_time[1] = ws["ws2"].start

\* The put of cycle cyc of inspector i is pending on buffer b in put queue pq.
PutPending(pq, i, b, cyc) ==
  \E k \in 1..Len(pq[b]) : pq[b][k].who = i /\ pq[b][k].cyc = cyc

\* Inspector i issues a put on buffer b in this step.
IssuesPut(i, b) ==
  /\ phase = "running" /\ phase' = "running"
  /\ insp[i].pc = "start_route" /\ insp'[i].pc \in {"wait_put", "wait_any"}
  /\ \/ PutPending(put_queue', i, b, insp'[i].cyc)
     \/ PutCompleted(queue', i, b, insp'[i].cyc)

\* C23: a put(1) issued on a buffer whose level is below the capacity of 2
\* completes in the step that issues it and the level is one higher after the
\* step; a put(1) issued at level 2 stays pending and leaves the level as it
\* is; and a pending put leaves the queue only in the step that processes a
\* get on its buffer, as the first of the queue, the level being 2 again
\* after the step.
C23_PutCompletesWhenRoom ==
  [][ \A b \in Buffers :
        /\ \A i \in Inspectors :
             IssuesPut(i, b) =>
               IF level[b] + 1 <= BUFFER_SIZE
               THEN /\ PutCompleted(queue', i, b, insp'[i].cyc)
                    /\ level'[b] = level[b] + 1
               ELSE /\ PutPending(put_queue', i, b, insp'[i].cyc)
                    /\ level'[b] = level[b]
        /\ (phase = "running" /\ phase' = "running" /\ put_queue[b] # <<>>
            /\ Head(put_queue[b]) \notin SeqToSet(put_queue'[b])) =>
               /\ Head(queue).kind = "get" /\ Head(queue).buf = b
               /\ put_queue'[b] = Tail(put_queue[b])
               /\ level'[b] = BUFFER_SIZE ]_vars

\* Inspector i appends a wait sample in this step.
RecordsWait(i) == Len(insp'[i].wait_time) > Len(insp[i].wait_time)

\* C24: the routing step of an inspector notes its start when it issues a
\* put and its end when the put it waits for completes, nothing else changes
\* the two, and the wait sample recorded for a cycle is the end less the start
\* of that cycle's routing, which ended at the instant the cycle completed,
\* and is 0 for a cycle whose unit was dropped.
C24_WaitIsOwnRouting ==
  [][ \A i \in Inspectors :
        (phase = "running" /\ phase' = "running") =>
          LET issues == insp[i].pc = "start_route" /\ insp'[i].pc \in {"wait_put", "wait_any"}
              completes == insp[i].pc \in {"wait_put", "any_done"} /\ insp'[i].pc = "routed"
              dropped == \A b \in SeqToSet(InspBuffers[i]) : accepts[b] # Held(i)
          IN  /\ insp'[i].start # insp[i].start => issues
              /\ issues => insp'[i].start = now'
              /\ insp'[i].end # insp[i].end => completes
              /\ completes => insp'[i].end = now'
              /\ RecordsWait(i) =>
                   /\ Last(insp'[i].wait_time) >= 0
                   /\ IF dropped THEN Last(insp'[i].wait_time) = 0
                      ELSE /\ Last(insp'[i].wait_time) = insp[i].end - insp[i].start
                           /\ insp[i].end = cycles[i].last ]_vars

\* The part of the window [START_RECORDING, SIM_TIME] that lies after the
\* instant since.
WindowSince(since) == SIM_TIME - (IF since > START_RECORDING THEN since ELSE START_RECORDING)

\* C25: the total idle time of a summary row is the time inside the window
\* that the entity spent suspended on its buffers, so for an entity that
\* recorded at least one cycle it counts at least the part of the window
\* covered by the wait that is still in progress at the horizon.
C25_IdleIsSuspendedTimeInWindow ==
  START_RECORDING <= SIM_TIME =>
    /\ \A r \in Rows(stats.workstation) :
         (ws[r.id].total_amount_assembled >= 1 /\ Gathering(r.id)) =>
           r.total_idle_time >= WindowSince(ws[r.id].wait)
    /\ \A r \in Rows(stats.inspector) :
         (InspCount(r.id) >= 1 /\ Blocked(r.id)) =>
           r.total_idle_time >= WindowSince(insp[r.id].start)

NonZeroSamples(s) == {k \in 1..Len(s) : s[k] # 0}

\* The mean of the non-zero samples, NaN when there is none.
MeanOfNonZero(s) ==
  IF NonZeroSamples(s) = {} THEN NaN
  ELSE [nan |-> FALSE, num |-> SumSeq(s), den |-> Cardinality(NonZeroSamples(s))]

Mixed(s) == NonZeroSamples(s) # {} /\ Cardinality(NonZeroSamples(s)) < Len(s)

FixedTopology == cfg.ws_buffers = LineWsBuffers /\ cfg.insp_buffers = LineInspBuffers

\* Every event due at the current instant has been processed.
Settled == \A k \in 1..Len(queue) : queue[k].t > now

InTimedDelay ==
  \/ \E i \in Inspectors : insp[i].pc = "inspecting" /\ Timeouts(i) # {}
  \/ \E w \in Workstations :
       /\ ws[w].pc = "assembling"
       /\ \E k \in 1..Len(queue) : queue[k].kind = "timeout" /\ queue[k].who = w

\* Inspector i waits on a put of its current cycle, none of which has completed.
PutWaits(i) ==
  /\ Blocked(i)
  /\ \A k \in 1..Len(queue) :
       ~(queue[k].kind = "put" /\ queue[k].who = i /\ queue[k].cyc = insp[i].cyc)

\* Workstation w waits on a get of its current cycle that is still pending.
GetWaits(w) ==
  /\ Gathering(w)
  /\ \E b \in SeqToSet(cfg.ws_buffers[w]) :
       \E k \in 1..Len(get_queue[b]) :
         get_queue[b][k].who = w /\ get_queue[b][k].cyc = ws[w].cyc

AllSuspended == (\A i \in Inspectors : PutWaits(i)) /\ (\A w \in Workstations : GetWaits(w))

\* C27: with the lists of buffers run_iteration builds, in no state of the
\* run before the horizon are both inspectors waiting on a pending put and
\* all three workstations waiting on a pending get; and whenever the clock is
\* about to advance, an inspector is inspecting or a workstation is
\* assembling.
C27_NoDeadlock ==
  (phase = "running" /\ FixedTopology /\ now < SIM_TIME) =>
    /\ ~AllSuspended
    /\ Settled => InTimedDelay

Suspended == {i \in Inspectors : PutWaits(i)} \cup {w \in Workstations : GetWaits(w)}

C27_Witness ==
  /\ phase = "running" /\ FixedTopology /\ Settled /\ now < SIM_TIME
  /\ Cardinality(Suspended) = 4

\* A get of workstation w's current cycle is pending on buffer b.
GetPending(w, b) ==
  \E k \in 1..Len(get_queue[b]) : get_queue[b][k].who = w /\ get_queue[b][k].cyc = ws[w].cyc

\* Workstation w is gathering with the unit of buffer b withdrawn and the unit
\* of another of its buffers still due.
HoldsUnit(w, b) ==
  /\ Gathering(w) /\ Got(w, b) /\ ~GetPending(w, b)
  /\ \E c \in SeqToSet(cfg.ws_buffers[w]) : c # b /\ GetPending(w, c) /\ level[c] = 0

\* C28: the level of a buffer is the number of units deposited less the
\* number withdrawn; a gathering workstation with two buffers has, whenever
\* the clock is about to advance, withdrawn the unit of each of its buffers
\* that held one, whatever the other buffer holds, and waits only on empty
\* buffers; and the put inspector 1 issues for a C1 goes to a buffer of lowest
\* level, below the capacity, the units withdrawn by gathering workstations
\* not counted, or to all its buffers when every level is at the capacity.
C28_WithdrawnUnitsNotCounted ==
  [][ phase = "running" =>
        /\ \A b \in Buffers : level[b] = deposited[b] - removed[b]
        /\ \A w \in Workstations :
             (Len(cfg.ws_buffers[w]) = 2 /\ Gathering(w) /\ Settled) =>
               \A b \in SeqToSet(cfg.ws_buffers[w]) :
                 /\ level[b] >= 1 => Got(w, b)
                 /\ Got(w, b) <=> ~GetPending(w, b)
        /\ \A b \in SeqToSet(InspBuffers["insp1"]) :
             IssuesPut("insp1", b) =>
               IF insp'["insp1"].pc = "wait_put"
               THEN /\ level[b] < BUFFER_SIZE
                    /\ \A c \in SeqToSet(InspBuffers["insp1"]) : level[b] <= level[c]
               ELSE \A c \in SeqToSet(InspBuffers["insp1"]) : level[c] = BUFFER_SIZE ]_vars

C28_Witness ==
  /\ phase = "running" /\ Settled
  /\ HoldsUnit("ws2", "w2c1")
  /\ level["w2c1"] = 1 /\ level["w1c1"] = BUFFER_SIZE

====
